---- MODULE Spec2Model ----
(***************************************************************************)
(* marimo-hub: the persistent notebook registry (BadgerRegistry), the      *)
(* process supervisor (Runner / NotebookManager) and their wiring.         *)
(*                                                                         *)
(* Specifications:                                                         *)
(*   Spec      registry, one caller at a time (each call runs to its end)  *)
(*   SpecConc  registry, concurrent callers, one step per db transaction   *)
(*   SpecRun   supervisor driven by published registry events              *)
(*   SpecStop  SpecRun with Runner.Stop and the cancelled context          *)
(*   SpecPorts the port counter of one Runner over its lifetime            *)
(*   SpecOld   the earlier Runner of src/unnamed/part_001                  *)
(*   SpecBoot  registry constructed over a populated store, supervisor     *)
(*             subscribed (cmd/main.go)                                    *)
(*   SpecProxy SpecBoot with the reverse proxy serving client requests     *)
(*   SpecHub   the whole program: registry calls publish to the supervisor *)
(***************************************************************************)
EXTENDS Integers, Sequences, FiniteSets, TLC

VARIABLES
    store,      \* badger db: key "notebook:"+id -> Notebook (function on the stored ids)
    used,       \* ids uuid.New has handed out so far
    call,       \* registry callers: call[t] is the frame of caller t's current/last call
    mode,       \* which part of the program the behaviour exercises
    managers,   \* Runner.managers: id -> handle (a handle is named by its port)
    mgr,        \* the NotebookManager objects: port -> [notebook, port, cmd, status]
    nextPort,   \* Runner.nextPort
    rmu,        \* Runner.mu: 0, or the event goroutine holding the write lock
    ev,         \* goroutines spawned by notifySubscribers (go handler(nb, action))
    proc,       \* external marimo processes launched by start()
    mon,        \* monitor goroutines, mon[p] spawned for proc[p]
    life,       \* per id: the mutations the registry has published for it
    crashed,    \* a goroutine panicked (nil dereference): the program is gone
    shut,       \* Runner.Stop: the position of its caller; r.ctx is done once it has begun
    http,       \* the HTTP request the proxy middleware is serving
    ws          \* the WebSocket connection the /ws route is serving

vars == <<store, used, call, mode, managers, mgr, nextPort, rmu, ev, proc, mon, life, crashed,
          shut, http, ws>>
regVars == <<store, used, call>>
runVars == <<managers, mgr, nextPort, rmu, ev, proc, mon, life, crashed, shut>>
netVars == <<http, ws>>

----------------------------------------------------------------------------
(* Bounds *)
MaxIds == 2         \* ids uuid.New can hand out in one behaviour
NumCallers == 2     \* concurrent registry callers in SpecConc
MaxCalls == 2       \* calls each concurrent caller issues
MaxEvents == 3      \* registry events published to the supervisor in SpecRun
MaxProcs == 3       \* external processes launched in one behaviour
MaxHandles == 2     \* NotebookManager objects created in one behaviour

Ids == 1..MaxIds
Names == {"a", "b"}
Paths == {"/a", "/b"}
Domains == {"d1", "d2"}
OptBool == {"nil", "true", "false"}     \* *bool of CreateUpdateNotebookRequest

ActionAdd == "add"
ActionUpdate == "update"
ActionDelete == "delete"

StatusPending == "Pending"
StatusRunning == "Running"
StatusStopped == "Stopped"
StatusError == "Error"
StatusRestarting == "Restarting"
StatusZero == ""                         \* Go zero value of type Status

(* Notebook{} *)
ZeroNotebook ==
    [ID |-> 0, Name |-> "", Path |-> "", Domain |-> "",
     ShowCode |-> FALSE, Watch |-> FALSE, CreatedAt |-> 0]

(* CreateUpdateNotebookRequest *)
Requests ==
    [Name : Names \cup {""}, Path : Paths \cup {""}, Domain : Domains \cup {""},
     ShowCode : OptBool, Watch : OptBool]

ZeroRequest ==
    [Name |-> "", Path |-> "", Domain |-> "", ShowCode |-> "nil", Watch |-> "nil"]

(* requests of the concurrent callers: creations on each domain, and updates of one
   field (name, domain or watch) *)
ConcRequests ==
    {[ZeroRequest EXCEPT !.Name = "a", !.Path = "/a", !.Domain = d] : d \in Domains}
    \cup {[ZeroRequest EXCEPT !.Domain = d] : d \in Domains}
    \cup {[ZeroRequest EXCEPT !.Name = "b"], [ZeroRequest EXCEPT !.Watch = "true"]}

Min(S) == CHOOSE x \in S : \A y \in S : x <= y

----------------------------------------------------------------------------
(* Registry: reads *)

getNotebook(st, id) ==
    IF id \in DOMAIN st THEN [nb |-> st[id], ok |-> TRUE]
    ELSE [nb |-> ZeroNotebook, ok |-> FALSE]

(* mutant: the scan compares the record's name with the domain asked for *)
GetByDomain_name(st, domain) ==
    LET m == {i \in DOMAIN st : st[i].Name = domain}
    IN  IF m = {} THEN [nb |-> ZeroNotebook, ok |-> FALSE]
        ELSE [nb |-> st[Min(m)], ok |-> TRUE]

(* iterator over the prefix in key order, first match wins *)
GetByDomain(st, domain) ==
    LET m == {i \in DOMAIN st : st[i].Domain = domain}
    IN  IF m = {} THEN [nb |-> ZeroNotebook, ok |-> FALSE]
        ELSE [nb |-> st[Min(m)], ok |-> TRUE]

getNotebookByDomain(st, domain) == GetByDomain(st, domain)

Get(st, id) == getNotebook(st, id)

(* txn.Set(notebookPrefix + nb.ID, data) *)
storeNotebook(st, nb) ==
    [i \in DOMAIN st \cup {nb.ID} |-> IF i = nb.ID THEN nb ELSE st[i]]

(* txn.Delete(notebookPrefix + id) *)
deleteKey(st, id) == [i \in DOMAIN st \ {id} |-> st[i]]

----------------------------------------------------------------------------
(* Registry: one call is a frame that advances one db transaction at a time *)

IdleFrame ==
    [op |-> "none", pc |-> "idle", id |-> 0, req |-> ZeroRequest, nb |-> ZeroNotebook,
     out |-> "", ret |-> ZeroNotebook, notified |-> <<>>, wrote |-> FALSE, pre |-> <<>>,
     n |-> 0, wait |-> {}]

(* the caller's arguments; pre remembers the store the call was issued against *)
NewFrame(op, id, req, pre, n) ==
    [IdleFrame EXCEPT !.n = n, !.op = op, !.id = id, !.req = req, !.pre = pre,
                      !.pc = CASE op = "Add" -> "A1" [] op = "Update" -> "U1"
                               [] OTHER -> "D1"]

Return(f, out, ret) == [f EXCEPT !.pc = "ret", !.out = out, !.ret = ret]

(* notifySubscribers: one goroutine per subscriber; the frame keeps what was published *)
notifySubscribers(f, nb, action) ==
    [f EXCEPT !.notified = Append(@, [nb |-> nb, action |-> action])]

(* mutant: the validation forgets the path *)
AddValidate_nopath(s, newid) ==
    LET f == s.f IN
    IF f.req.Name = "" \/ f.req.Domain = ""
    THEN [s EXCEPT !.f = Return(f, "invalid", ZeroNotebook)]
    ELSE IF GetByDomain(s.store, f.req.Domain).ok
    THEN [s EXCEPT !.f = Return(f, "conflict", ZeroNotebook)]
    ELSE [s EXCEPT !.used = @ \cup {newid},
                   !.f = [f EXCEPT !.pc = "A2",
                                   !.nb = [ID |-> newid, Name |-> f.req.Name,
                                           Path |-> f.req.Path, Domain |-> f.req.Domain,
                                           ShowCode |-> (f.req.ShowCode = "true"),
                                           Watch |-> (f.req.Watch = "true"),
                                           CreatedAt |-> Cardinality(s.used) + 1]]]

(* Add, lines 49-65: validation, first domain check, the new record *)
AddValidate(s, newid) ==
    LET f == s.f IN
    IF f.req.Name = "" \/ f.req.Path = "" \/ f.req.Domain = ""
    THEN [s EXCEPT !.f = Return(f, "invalid", ZeroNotebook)]
    ELSE IF GetByDomain(s.store, f.req.Domain).ok
    THEN [s EXCEPT !.f = Return(f, "conflict", ZeroNotebook)]
    ELSE [s EXCEPT !.used = @ \cup {newid},
                   !.f = [f EXCEPT !.pc = "A2",
                                   !.nb = [ID |-> newid, Name |-> f.req.Name,
                                           Path |-> f.req.Path, Domain |-> f.req.Domain,
                                           ShowCode |-> (f.req.ShowCode = "true"),
                                           Watch |-> (f.req.Watch = "true"),
                                           CreatedAt |-> Cardinality(s.used) + 1]]]

(* Add, lines 67-69: second domain check *)
AddRecheck(s) ==
    IF getNotebookByDomain(s.store, s.f.req.Domain).ok
    THEN [s EXCEPT !.f = Return(s.f, "conflict", ZeroNotebook)]
    ELSE [s EXCEPT !.f.pc = "A3"]

(* Add, lines 71-82: store, publish, return *)
AddStore(s) ==
    [s EXCEPT !.store = storeNotebook(s.store, s.f.nb),
              !.f = Return(notifySubscribers([s.f EXCEPT !.wrote = TRUE], s.f.nb, ActionAdd),
                           "ok", s.f.nb)]

(* mutant: the domain check is skipped *)
UpdateDomainCheck_skip(s) == [s EXCEPT !.f.pc = "U2"]

(* Update, lines 164-168: domain check before the record is read *)
UpdateDomainCheck(s) ==
    LET f == s.f
        g == GetByDomain(s.store, f.req.Domain)
    IN  IF f.req.Domain # "" /\ g.ok /\ g.nb.ID # f.id
        THEN [s EXCEPT !.f = Return(f, "conflict", ZeroNotebook)]
        ELSE [s EXCEPT !.f.pc = "U2"]

(* mutant: the name of the request is applied whenever it differs from the stored one *)
ApplyRequest_blank(nb, req) ==
    LET n1 == IF req.Name # nb.Name THEN [nb EXCEPT !.Name = req.Name] ELSE nb
        n2 == IF req.Path # "" /\ req.Path # n1.Path THEN [n1 EXCEPT !.Path = req.Path] ELSE n1
        n3 == IF req.Domain # "" /\ req.Domain # n2.Domain
              THEN [n2 EXCEPT !.Domain = req.Domain] ELSE n2
    IN  n3

(* mutant: the strings of the request are copied whether present or not *)
ApplyRequest_overwrite(nb, req) ==
    [nb EXCEPT !.Name = req.Name, !.Path = req.Path, !.Domain = req.Domain]

(* Update, lines 177-197: the fields present in the request *)
ApplyRequest(nb, req) ==
    LET n1 == IF req.Name # "" /\ req.Name # nb.Name THEN [nb EXCEPT !.Name = req.Name] ELSE nb
        n2 == IF req.Path # "" /\ req.Path # n1.Path THEN [n1 EXCEPT !.Path = req.Path] ELSE n1
        n3 == IF req.Domain # "" /\ req.Domain # n2.Domain
              THEN [n2 EXCEPT !.Domain = req.Domain] ELSE n2
        n4 == IF req.ShowCode # "nil" /\ (req.ShowCode = "true") # n3.ShowCode
              THEN [n3 EXCEPT !.ShowCode = (req.ShowCode = "true")] ELSE n3
        n5 == IF req.Watch # "nil" /\ (req.Watch = "true") # n4.Watch
              THEN [n4 EXCEPT !.Watch = (req.Watch = "true")] ELSE n4
    IN  n5

(* mutant: no early return when nothing changed *)
UpdateRead_always(s) ==
    LET f == s.f
        g == getNotebook(s.store, f.id)
        nb == ApplyRequest(g.nb, f.req)
    IN  IF ~g.ok THEN [s EXCEPT !.f = Return(f, "notfound", ZeroNotebook)]
        ELSE [s EXCEPT !.f = [f EXCEPT !.pc = "U3", !.nb = nb]]

(* Update, lines 170-204: read the record, apply, return early when nothing changed *)
UpdateRead(s) ==
    LET f == s.f
        g == getNotebook(s.store, f.id)
        nb == ApplyRequest(g.nb, f.req)
        updated == nb # g.nb
    IN  IF ~g.ok THEN [s EXCEPT !.f = Return(f, "notfound", ZeroNotebook)]
        ELSE IF ~updated THEN [s EXCEPT !.f = Return(f, "nochange", nb)]
        ELSE [s EXCEPT !.f = [f EXCEPT !.pc = "U3", !.nb = nb]]

(* Update, lines 206-210: second domain check, against the already updated nb *)
UpdateRecheck(s) ==
    LET f == s.f
        g == getNotebookByDomain(s.store, f.req.Domain)
    IN  IF f.req.Domain # "" /\ f.req.Domain # f.nb.Domain /\ g.ok /\ g.nb.ID # f.id
        THEN [s EXCEPT !.f = Return(f, "conflict", ZeroNotebook)]
        ELSE [s EXCEPT !.f.pc = "U4"]

(* Update, lines 212-220: store, publish, return *)
UpdateStore(s) ==
    [s EXCEPT !.store = storeNotebook(s.store, s.f.nb),
              !.f = Return(notifySubscribers([s.f EXCEPT !.wrote = TRUE], s.f.nb, ActionUpdate),
                           "ok", s.f.nb)]

(* Delete, lines 226-230 *)
DeleteRead(s) ==
    LET g == getNotebook(s.store, s.f.id)
    IN  IF ~g.ok THEN [s EXCEPT !.f = Return(s.f, "notfound", ZeroNotebook)]
        ELSE [s EXCEPT !.f = [s.f EXCEPT !.pc = "D2", !.nb = g.nb]]

(* Delete, lines 232-234 *)
DeleteRecheck(s) ==
    IF ~getNotebook(s.store, s.f.id).ok
    THEN [s EXCEPT !.f = Return(s.f, "gone", ZeroNotebook)]
    ELSE [s EXCEPT !.f.pc = "D3"]

(* mutant: the record published is read after the removal *)
DeleteStore_late(s) ==
    [s EXCEPT !.store = deleteKey(s.store, s.f.id),
              !.f = Return(notifySubscribers([s.f EXCEPT !.wrote = TRUE],
                                             getNotebook(deleteKey(s.store, s.f.id), s.f.id).nb,
                                             ActionDelete),
                           "ok", ZeroNotebook)]

(* Delete, lines 237-249: remove the key, publish the record read first *)
DeleteStore(s) ==
    [s EXCEPT !.store = deleteKey(s.store, s.f.id),
              !.f = Return(notifySubscribers([s.f EXCEPT !.wrote = TRUE], s.f.nb, ActionDelete),
                           "ok", ZeroNotebook)]

(* the next transaction of the call in s.f *)
RegStep(s, newid) ==
    CASE s.f.pc = "A1" -> AddValidate(s, newid)
      [] s.f.pc = "A2" -> AddRecheck(s)
      [] s.f.pc = "A3" -> AddStore(s)
      [] s.f.pc = "U1" -> UpdateDomainCheck(s)
      [] s.f.pc = "U2" -> UpdateRead(s)
      [] s.f.pc = "U3" -> UpdateRecheck(s)
      [] s.f.pc = "U4" -> UpdateStore(s)
      [] s.f.pc = "D1" -> DeleteRead(s)
      [] s.f.pc = "D2" -> DeleteRecheck(s)
      [] s.f.pc = "D3" -> DeleteStore(s)
      [] OTHER -> s

RECURSIVE RunCall(_, _)
RunCall(s, newid) == IF s.f.pc \in {"ret", "idle"} THEN s ELSE RunCall(RegStep(s, newid), newid)

(* uuid.New(): an id never handed out before *)
FreshIds == Ids \ used

----------------------------------------------------------------------------
(* A caller issues a call: the HTTP handlers postNotebook, putNotebook, deleteNotebook *)
Invoke(t) ==
    /\ mode \in {"seq", "conc"}
    /\ call[t].pc = "idle"
    /\ mode = "conc" => call[t].n < MaxCalls
    /\ \E op \in {"Add", "Update", "Delete"} :
       \E id \in (IF op = "Add" THEN {0} ELSE Ids) :
       \E req \in (IF op = "Delete" THEN {ZeroRequest}
                   ELSE IF mode = "seq" THEN Requests ELSE ConcRequests) :
         call' = [call EXCEPT ![t] = NewFrame(op, id, req, IF mode = "seq" THEN store ELSE <<>>,
                                                 IF mode = "seq" THEN 0 ELSE call[t].n + 1)]
    /\ UNCHANGED <<store, used, mode, runVars, netVars>>

(* the caller takes the result *)
Done(t) ==
    /\ mode \in {"seq", "conc"}
    /\ call[t].pc = "ret"
    /\ call' = [call EXCEPT ![t] = [IdleFrame EXCEPT !.n = call[t].n]]
    /\ UNCHANGED <<store, used, mode, runVars, netVars>>

(* Registry called by one caller at a time: the call runs to its return *)
SeqCall(op) ==
    /\ mode = "seq"
    /\ call[1].op = op
    /\ call[1].pc \notin {"idle", "ret"}
    /\ \E newid \in FreshIds \cup {0} :
       \E s \in {RunCall([f |-> call[1], store |-> store, used |-> used], newid)} :
             /\ 0 \notin s.used        \* a creation needs an id not handed out yet
             /\ store' = s.store
             /\ used' = s.used
             /\ call' = [call EXCEPT ![1] = s.f]
    /\ UNCHANGED <<mode, runVars, netVars>>

Add == SeqCall("Add")
Update == SeqCall("Update")
Delete == SeqCall("Delete")

(* Registry called concurrently: caller t runs the next db transaction of its call *)
ConcStep(t, op) ==
    /\ mode = "conc"
    /\ call[t].op = op
    /\ call[t].pc \notin {"idle", "ret"}
    /\ \E newid \in FreshIds \cup {0} :
       \E s \in {RegStep([f |-> call[t], store |-> store, used |-> used], newid)} :
             /\ 0 \notin s.used        \* a creation needs an id not handed out yet
             /\ store' = s.store
             /\ used' = s.used
             /\ call' = [call EXCEPT ![t] = s.f]
    /\ UNCHANGED <<mode, runVars, netVars>>

AddStep(t) == ConcStep(t, "Add")
UpdateStep(t) == ConcStep(t, "Update")
DeleteStep(t) == ConcStep(t, "Delete")

----------------------------------------------------------------------------
(* Supervisor: Runner and NotebookManager *)

BasePort == 3000                         \* r.nextPort.Store(3000)

(* the domain a stored record of id i carries in the supervisor specifications *)
DomainOf(i) == IF i = 1 THEN "d1" ELSE IF i = 2 THEN "d2" ELSE IF i = 3 THEN "d3" ELSE "d4"

(* the records the registry publishes for id i *)
RecordsOf(i) ==
    {[ID |-> i, Name |-> "a", Path |-> p, Domain |-> DomainOf(i),
      ShowCode |-> FALSE, Watch |-> (p = "/b"), CreatedAt |-> i] : p \in Paths}

(* go handler(nb, action): the goroutine before it runs. hadLive remembers whether the
   handle owned a live process when update read m.cmd *)
NewEvent(nb, action) ==
    [nb |-> nb, action |-> action, pc |-> "pending", h |-> 0, hadLive |-> FALSE]

(* mutant: the handler is called in the caller's goroutine, which waits for its return *)
go_call(evs, nb, action) ==
    [ev |-> Append(evs, NewEvent(nb, action)), wait |-> {Len(evs) + 1}]

(* go handler(nb, action): the handler runs in a goroutine of its own and the caller
   waits for nothing *)
go(evs, nb, action) ==
    [ev |-> Append(evs, NewEvent(nb, action)), wait |-> {}]

(* a handler goroutine that has returned: its locals are gone *)
DoneEvent == [NewEvent(ZeroNotebook, "") EXCEPT !.pc = "done"]

(* a monitor goroutine: before it runs, and after it has returned *)
NewMonitor == [pc |-> "spawned", target |-> 0, err |-> ""]
DoneMonitor == [NewMonitor EXCEPT !.pc = "done"]

(* &NotebookManager{notebook: nb, port: port, ctx: r.ctx}. startErr is not a field of the
   struct: it remembers that the last start() on the handle returned ExecError *)
NewManager(nb, port) ==
    [notebook |-> nb, port |-> port, cmd |-> 0, status |-> StatusZero, startErr |-> FALSE]

(* exec.CommandContext(m.ctx, "marimo", "run", path, "--port", port, ...) *)
CmdArgs(m) ==
    [path |-> m.notebook.Path, port |-> m.port, watch |-> m.notebook.Watch,
     includeCode |-> m.notebook.ShowCode]

Alive(p) == p # 0 /\ proc[p].st = "running"

(* mutant: the status is set before the process reference is looked at *)
stop_early(h) ==
    LET c == mgr[h].cmd IN
    IF c = 0 THEN [mgr |-> [mgr EXCEPT ![h].status = StatusStopped], proc |-> proc,
                   res |-> "NotRunning"]
    ELSE IF proc[c].reaped THEN [mgr |-> mgr, proc |-> proc, res |-> "ProcessKillError"]
    ELSE [mgr |-> [mgr EXCEPT ![h].cmd = 0, ![h].status = StatusStopped],
          proc |-> IF proc[c].st = "running" THEN [proc EXCEPT ![c].st = "killed"] ELSE proc,
          res |-> "ok"]

(* NotebookManager.stop, under m.mu. Process.Kill fails once Wait has reaped the process *)
stop(h) ==
    LET c == mgr[h].cmd IN
    IF c = 0 THEN [mgr |-> mgr, proc |-> proc, res |-> "NotRunning"]
    ELSE IF proc[c].reaped THEN [mgr |-> mgr, proc |-> proc, res |-> "ProcessKillError"]
    ELSE [mgr |-> [mgr EXCEPT ![h].cmd = 0, ![h].status = StatusStopped],
          proc |-> IF proc[c].st = "running" THEN [proc EXCEPT ![c].st = "killed"] ELSE proc,
          res |-> "ok"]

(* NotebookManager.start, under m.mu, on the state (m, pr, mo); launch: cmd.Start succeeds *)
start(m, pr, mo, h, launch) ==
    IF m[h].cmd # 0
    THEN [mgr |-> m, proc |-> pr, mon |-> mo, res |-> "AlreadyRunning"]
    ELSE IF ~launch
    THEN [mgr |-> [m EXCEPT ![h].status = StatusError, ![h].startErr = TRUE],
          proc |-> pr, mon |-> mo, res |-> "ExecError"]
    ELSE [mgr |-> [m EXCEPT ![h].cmd = Len(pr) + 1, ![h].status = StatusRunning,
                            ![h].startErr = FALSE],
          proc |-> Append(pr, [h |-> h, args |-> CmdArgs(m[h]), st |-> "running",
                               reaped |-> FALSE]),
          mon |-> Append(mo, NewMonitor),
          res |-> "ok"]

(* the caller of Runner.Stop before the call; todo: the managers its loop has yet to stop *)
NotStopping == [pc |-> "idle", todo |-> {}]

(* r.ctx is done: Runner.Stop has called r.cancel() *)
Cancelled == shut.pc # "idle"

(* cmd.Start may fail whenever it is called; it succeeds only within the process bound, and
   it fails for a command of a context that is done *)
Launches == IF Len(proc) < MaxProcs /\ ~Cancelled THEN {TRUE, FALSE} ELSE {FALSE}

(* Runner.GetStatus *)
GetStatus(id) ==
    IF id \in DOMAIN managers THEN [status |-> mgr[managers[id]].status, err |-> "nil"]
    ELSE [status |-> StatusStopped, err |-> "NotRunning"]

(* Runner.GetPort *)
GetPort(id) ==
    IF id \in DOMAIN managers THEN [port |-> mgr[managers[id]].port, ok |-> TRUE]
    ELSE [port |-> 0, ok |-> FALSE]

Running == mode \in {"run", "boot", "proxy", "hub", "stop", "ports", "old"} /\ ~crashed

(* mutant: the port is read from the counter without advancing it *)
handleNotebookAt_noinc(e, nb, evs) ==
    /\ rmu = 0
    /\ LET id == nb.ID IN
       IF id \in DOMAIN managers
       THEN /\ rmu' = e
            /\ ev' = [evs EXCEPT ![e].pc = "update", ![e].h = managers[id]]
            /\ UNCHANGED <<managers, mgr, nextPort>>
       ELSE /\ UNCHANGED nextPort
            /\ mgr' = mgr @@ (nextPort + 1 :> NewManager(nb, nextPort + 1))
            /\ managers' = managers @@ (id :> nextPort + 1)
            /\ ev' = [evs EXCEPT ![e].pc = "start_new", ![e].h = nextPort + 1]
            /\ rmu' = 0

(* mutant: the port is the value of the counter before it is advanced *)
handleNotebookAt_before(e, nb, evs) ==
    /\ rmu = 0
    /\ LET id == nb.ID IN
       IF id \in DOMAIN managers
       THEN /\ rmu' = e
            /\ ev' = [evs EXCEPT ![e].pc = "update", ![e].h = managers[id]]
            /\ UNCHANGED <<managers, mgr, nextPort>>
       ELSE /\ nextPort - BasePort < MaxHandles
            /\ nextPort' = nextPort + 1
            /\ mgr' = mgr @@ (nextPort :> NewManager(nb, nextPort))
            /\ managers' = managers @@ (id :> nextPort)
            /\ ev' = [evs EXCEPT ![e].pc = "start_new", ![e].h = nextPort]
            /\ rmu' = 0

(* handleNotebook, lines 52-74, run by goroutine e for nb: under r.mu, find the manager
   or create one. The lock is kept for update and released before start *)
handleNotebookAt(e, nb, evs) ==
    /\ rmu = 0
    /\ LET id == nb.ID IN
       IF id \in DOMAIN managers
       THEN /\ rmu' = e
            /\ ev' = [evs EXCEPT ![e].pc = "update", ![e].h = managers[id]]
            /\ UNCHANGED <<managers, mgr, nextPort>>
       ELSE /\ nextPort - BasePort < MaxHandles
            /\ nextPort' = nextPort + 1
            /\ mgr' = mgr @@ (nextPort + 1 :> NewManager(nb, nextPort + 1))
            /\ managers' = managers @@ (id :> nextPort + 1)
            /\ ev' = [evs EXCEPT ![e].pc = "start_new", ![e].h = nextPort + 1]
            /\ rmu' = 0

(* HandleRegistryEvent, lines 41-47, run by goroutine e: ActionDelete *)
handleDeleteAt(e, nb, evs) ==
    /\ rmu = 0
    /\ rmu' = 0
    /\ UNCHANGED nextPort
    /\ LET id == nb.ID IN
       IF id \in DOMAIN managers
       THEN \E r \in {stop(managers[id])} :
              /\ mgr' = r.mgr
              /\ proc' = r.proc
              /\ managers' = [i \in DOMAIN managers \ {id} |-> managers[i]]
              /\ ev' = [evs EXCEPT ![e] = DoneEvent]
       ELSE /\ ev' = [evs EXCEPT ![e] = DoneEvent]
            /\ UNCHANGED <<mgr, proc, managers>>

(* The registry has published a mutation of id and the goroutine of its handler gets
   r.mu. notifySubscribers starts one goroutine per mutation and nothing orders them, so
   the mutations of one id (one Added, Updated any number of times, one Deleted) reach
   the supervisor in any order. *)
HandleRegistryEvent(id, action) ==
    /\ Running /\ mode \in {"run", "stop"}
    /\ shut.pc # "returned"
    /\ Len(ev) < MaxEvents
    /\ action \in {ActionAdd, ActionDelete} => action \notin life[id]
    /\ life' = [life EXCEPT ![id] = @ \cup {action}]
    /\ \E nb \in RecordsOf(id) :
         LET e == Len(ev) + 1
             evs == Append(ev, NewEvent(nb, action))
         IN  IF action = ActionDelete
             THEN handleDeleteAt(e, nb, evs) /\ UNCHANGED mon
             ELSE handleNotebookAt(e, nb, evs) /\ UNCHANGED <<proc, mon>>
    /\ UNCHANGED <<regVars, netVars, mode, shut, crashed>>

(* a handler goroutine that was started before it could take r.mu (startup replay) *)
HandlePending(e) ==
    /\ Running
    /\ ev[e].pc = "pending"
    /\ IF ev[e].action = ActionDelete
       THEN handleDeleteAt(e, ev[e].nb, ev) /\ UNCHANGED mon
       ELSE handleNotebookAt(e, ev[e].nb, ev) /\ UNCHANGED <<proc, mon>>
    /\ UNCHANGED <<regVars, netVars, mode, shut, life, crashed>>

(* NotebookManager.update, lines 128-131 (r.mu held by the caller) *)
update(e) ==
    /\ Running
    /\ ev[e].pc = "update"
    /\ LET h == ev[e].h
           needsRestart == mgr[h].cmd # 0
       IN  /\ mgr' = [mgr EXCEPT ![h].notebook = ev[e].nb]
           /\ ev' = [ev EXCEPT ![e] = IF needsRestart
                                        THEN [@ EXCEPT !.pc = "stop",
                                                       !.hadLive = Alive(mgr[h].cmd)]
                                        ELSE DoneEvent]
           /\ rmu' = IF needsRestart THEN rmu ELSE 0
    /\ UNCHANGED <<regVars, netVars, mode, shut, managers, nextPort, proc, mon, life, crashed>>

(* NotebookManager.update, lines 133-136: the stop step of a restart *)
updateStop(e) ==
    /\ Running
    /\ ev[e].pc = "stop"
    /\ \E r \in {stop(ev[e].h)} :
         /\ mgr' = r.mgr
         /\ proc' = r.proc
         /\ ev' = [ev EXCEPT ![e] = IF r.res = "ok" THEN [@ EXCEPT !.pc = "restart"]
                                      ELSE DoneEvent]
         /\ rmu' = IF r.res = "ok" THEN rmu ELSE 0
    /\ UNCHANGED <<regVars, netVars, mode, shut, managers, nextPort, mon, life, crashed>>

(* NotebookManager.update, line 137: the start step of a restart; then r.mu.Unlock *)
updateStart(e) ==
    /\ Running
    /\ ev[e].pc = "restart"
    /\ \E launch \in Launches : \E r \in {start(mgr, proc, mon, ev[e].h, launch)} :
         /\ mgr' = r.mgr
         /\ proc' = r.proc
         /\ mon' = r.mon
         /\ ev' = [ev EXCEPT ![e] = DoneEvent]
    /\ rmu' = 0
    /\ UNCHANGED <<regVars, netVars, mode, shut, managers, nextPort, life, crashed>>

(* handleNotebook, line 76: newManager.start(), after r.mu was released *)
startNew(e) ==
    /\ Running
    /\ ev[e].pc = "start_new"
    /\ \E launch \in Launches : \E r \in {start(mgr, proc, mon, ev[e].h, launch)} :
         /\ mgr' = r.mgr
         /\ proc' = r.proc
         /\ mon' = r.mon
         /\ ev' = [ev EXCEPT ![e] = DoneEvent]
    /\ UNCHANGED <<regVars, netVars, mode, shut, managers, nextPort, rmu, life, crashed>>

(* the external process ends by itself, or is killed by a signal from outside *)
ProcessExit(p) ==
    /\ Running
    /\ proc[p].st = "running"
    /\ \E how \in {"exit0", "exit1", "sigkill"} :
         proc' = [proc EXCEPT ![p].st = how]
    /\ UNCHANGED <<regVars, netVars, mode, shut, managers, mgr, nextPort, rmu, ev, mon, life, crashed>>

(* monitor, line 209: m.cmd is read without m.mu; a nil m.cmd panics *)
monitorBegin(p) ==
    /\ Running
    /\ mon[p].pc = "spawned"
    /\ IF mgr[proc[p].h].cmd = 0
       THEN /\ crashed' = TRUE
            /\ mon' = [mon EXCEPT ![p].pc = "panic"]
       ELSE /\ mon' = [mon EXCEPT ![p].pc = "waiting", ![p].target = mgr[proc[p].h].cmd]
            /\ UNCHANGED crashed
    /\ UNCHANGED <<regVars, netVars, mode, shut, managers, mgr, nextPort, rmu, ev, proc, life>>

(* the error cmd.Wait returns for a process that ended as st *)
WaitErr(st) ==
    CASE st = "exit0" -> "nil"
      [] st = "exit1" -> "exit status 1"
      [] OTHER -> "signal: killed"

(* monitor, line 209: cmd.Wait returns; only the first Wait on a process gets its state *)
monitorWait(p) ==
    /\ Running
    /\ mon[p].pc = "waiting"
    /\ LET t == mon[p].target IN
       /\ proc[t].st # "running"
       /\ mon' = [mon EXCEPT ![p].pc = "woken",
                             ![p].err = IF proc[t].reaped THEN "exec: Wait was already called"
                                        ELSE WaitErr(proc[t].st)]
       /\ proc' = [proc EXCEPT ![t].reaped = TRUE]
    /\ UNCHANGED <<regVars, netVars, mode, shut, managers, mgr, nextPort, rmu, ev, life, crashed>>

(* the status monitor sets for the error Wait returned, lines 213-224 *)
MonitorStatus(err) ==
    IF err # "nil" /\ err # "signal: killed" THEN StatusError ELSE StatusStopped

(* monitor, lines 210-226: under m.mu, set the status and clear m.cmd *)
monitorFinish(p) ==
    /\ Running
    /\ mon[p].pc = "woken"
    /\ mgr' = [mgr EXCEPT ![proc[p].h].status = MonitorStatus(mon[p].err),
                          ![proc[p].h].cmd = 0]
    /\ mon' = [mon EXCEPT ![p] = DoneMonitor]
    /\ UNCHANGED <<regVars, netVars, mode, shut, managers, nextPort, rmu, ev, proc, life, crashed>>

(* Runner.Stop, line 82: r.cancel() *)
StopCancel ==
    /\ Running /\ mode = "stop"
    /\ shut.pc = "idle"
    /\ shut' = [shut EXCEPT !.pc = "cancelled"]
    /\ UNCHANGED <<regVars, netVars, mode, managers, mgr, nextPort, rmu, ev, proc, mon, life,
                   crashed>>

(* Runner.Stop, lines 84-87: r.mu.Lock(), then the loop ranges over r.managers *)
StopLock ==
    /\ Running
    /\ shut.pc = "cancelled"
    /\ rmu = 0
    /\ rmu' = -1
    /\ shut' = [pc |-> "stopping", todo |-> {managers[i] : i \in DOMAIN managers}]
    /\ UNCHANGED <<regVars, netVars, mode, managers, mgr, nextPort, ev, proc, mon, life,
                   crashed>>

(* Runner.Stop, lines 87-90: manager.stop() for the next manager of the range, in the
   order the map yields them *)
StopManager(h) ==
    /\ Running
    /\ shut.pc = "stopping"
    /\ h \in shut.todo
    /\ \E r \in {stop(h)} :
         /\ mgr' = r.mgr
         /\ proc' = r.proc
    /\ shut' = [shut EXCEPT !.todo = @ \ {h}]
    /\ UNCHANGED <<regVars, netVars, mode, managers, nextPort, rmu, ev, mon, life, crashed>>

(* Runner.Stop, lines 85 and 91: the loop is over, the deferred r.mu.Unlock() runs *)
StopReturn ==
    /\ Running
    /\ shut.pc = "stopping"
    /\ shut.todo = {}
    /\ rmu' = 0
    /\ shut' = [shut EXCEPT !.pc = "returned"]
    /\ UNCHANGED <<regVars, netVars, mode, managers, mgr, nextPort, ev, proc, mon, life,
                   crashed>>

(* exec.CommandContext(m.ctx, ...), line 170: once the context is done, the goroutine
   os/exec runs for a started command kills its process *)
ctxKill(p) ==
    /\ Running
    /\ Cancelled
    /\ proc[p].st = "running"
    /\ proc' = [proc EXCEPT ![p].st = "killed"]
    /\ UNCHANGED <<regVars, netVars, mode, shut, managers, mgr, nextPort, rmu, ev, mon, life,
                   crashed>>

----------------------------------------------------------------------------
(* Reverse proxy: SetupProxyRoutes and the WebSocket middleware *)

MaxMsgs == 1        \* messages relayed in each direction of one WebSocket session

Hosts == Domains
(* the requests clients send to the proxy port *)
ClientRequests ==
    {[method |-> "GET", path |-> "/", query |-> "", body |-> ""],
     [method |-> "POST", path |-> "/x", query |-> "a=1", body |-> "payload"]}
Queries == {"", "a=1"}

CloseNormalClosure == 1000               \* websocket.CloseNormalClosure
CloseInternalServerErr == 1011           \* websocket.CloseInternalServerErr
CloseTryAgainLater == 1013               \* websocket.CloseTryAgainLater
StatusNotFound == 404                    \* fiber.StatusNotFound
StatusInternalServerError == 500         \* fiber.StatusInternalServerError

NoForward == [port |-> 0, method |-> "", path |-> "", query |-> "", body |-> ""]
NoResponse == [code |-> 0, body |-> ""]

(* fiber.Ctx of one request of the proxy middleware, and the handler's locals *)
IdleHttp ==
    [pc |-> "idle", host |-> "", method |-> "", path |-> "", query |-> "", body |-> "",
     nb |-> ZeroNotebook, port |-> 0, fwd |-> NoForward, back |-> NoResponse,
     resp |-> NoResponse]

(* wsproxy.Conn of one upgraded connection and the locals of its handler. sent: the
   frames written to the client; backend: the dialled connection; toBackend: the frames
   written to it; reader: the goroutine of lines 179-191 *)
IdleWs ==
    [pc |-> "idle", host |-> "", path |-> "", rawQS |-> "", nb |-> ZeroNotebook,
     port |-> 0, url |-> "", sent |-> <<>>, backend |-> "none", toBackend |-> <<>>,
     reader |-> "none", in |-> 0, out |-> 0, panicking |-> FALSE, closed |-> FALSE]

(* c.Status(code).JSON(core.ErrorResponse{Error: msg}) *)
ErrorResponse(f, code, msg) ==
    [f EXCEPT !.pc = "done", !.resp = [code |-> code, body |-> msg]]

(* what the notebook processes answer *)
BackendReplies == {[code |-> 200, body |-> "page"], [code |-> 404, body |-> ""]}

(* a process accepts connections on the port it was launched with while it runs *)
Listening(port) == \E p \in 1..Len(proc) : proc[p].args.port = port /\ proc[p].st = "running"

(* a client sends a request to the proxy port; one client is served at a time, the
   context of the connection served before it has been released *)
httpRequest ==
    /\ Running /\ mode = "proxy"
    /\ http.pc \in {"idle", "done"}
    /\ ws.pc \in {"idle", "closed"}
    /\ \E h \in Hosts, r \in ClientRequests :
         http' = [IdleHttp EXCEPT !.pc = "resolve", !.host = h, !.method = r.method,
                                  !.path = r.path, !.query = r.query, !.body = r.body]
    /\ ws' = IdleWs
    /\ UNCHANGED <<regVars, mode, runVars>>

(* middleware, lines 206-211: reg.GetByDomain(host) *)
httpResolve ==
    /\ Running
    /\ http.pc = "resolve"
    /\ LET r == GetByDomain(store, http.host) IN
       http' = IF ~r.ok
               THEN ErrorResponse(http, StatusNotFound, "Notebook not found for this domain")
               ELSE [http EXCEPT !.pc = "port", !.nb = r.nb]
    /\ UNCHANGED <<regVars, mode, runVars, ws>>

(* middleware, lines 213-216: runner.GetPort(nb.ID) *)
httpPort ==
    /\ Running
    /\ http.pc = "port"
    /\ rmu = 0
    /\ LET r == GetPort(http.nb.ID) IN
       http' = IF ~r.ok
               THEN ErrorResponse(http, StatusInternalServerError,
                                  "Notebook found but port not available")
               ELSE [http EXCEPT !.pc = "status", !.port = r.port]
    /\ UNCHANGED <<regVars, mode, runVars, ws>>

(* mutant: the status is looked up and not compared *)
httpStatus_any ==
    /\ Running
    /\ http.pc = "status"
    /\ rmu = 0
    /\ LET r == GetStatus(http.nb.ID) IN
       http' = IF r.err # "nil"
               THEN ErrorResponse(http, StatusInternalServerError, "Notebook not running")
               ELSE [http EXCEPT !.pc = "forward"]
    /\ UNCHANGED <<regVars, mode, runVars, ws>>

(* middleware, lines 218-221: runner.GetStatus(nb.ID) *)
httpStatus ==
    /\ Running
    /\ http.pc = "status"
    /\ rmu = 0
    /\ LET r == GetStatus(http.nb.ID) IN
       http' = IF r.err # "nil" \/ r.status # StatusRunning
               THEN ErrorResponse(http, StatusInternalServerError, "Notebook not running")
               ELSE [http EXCEPT !.pc = "forward"]
    /\ UNCHANGED <<regVars, mode, runVars, ws>>

(* http.NewRequest(c.Method(), "http://localhost:<port><c.Path()>", c.Body()), line 224:
   the URL is made of the port and of c.Path(), the path without the query string *)
NewRequest(f) ==
    [port |-> f.port, method |-> f.method, path |-> f.path, query |-> "", body |-> f.body]

(* c.Status(resp.StatusCode).SendStream(resp.Body), line 254 *)
SendStream(f, back) ==
    [f EXCEPT !.pc = "done", !.resp = [code |-> back.code, body |-> back.body]]

(* middleware, lines 223-254: the round trip to the backend. client.Do fails when nothing
   accepts on the port, io.ReadAll may fail while the answer is read *)
httpForward ==
    /\ Running
    /\ http.pc = "forward"
    /\ LET f == [http EXCEPT !.fwd = NewRequest(http)] IN
       IF ~Listening(f.fwd.port)
       THEN http' = ErrorResponse(f, StatusInternalServerError, "Failed to proxy request")
       ELSE \E back \in BackendReplies, readOk \in BOOLEAN :
              http' = IF readOk
                      THEN SendStream([f EXCEPT !.back = back], back)
                      ELSE ErrorResponse([f EXCEPT !.back = back],
                                         StatusInternalServerError, "Failed to read response")
    /\ UNCHANGED <<regVars, mode, runVars, ws>>

(* websocket.FormatCloseMessage(code, text) written as a CloseMessage *)
CloseFrame(code) == [type |-> "close", code |-> code]
TextFrame(payload) == [type |-> "text", code |-> 0, payload |-> payload]

(* the handler writes a close frame to the client and returns; its deferred calls run next *)
CloseAndReturn(f, code) ==
    [f EXCEPT !.sent = Append(@, CloseFrame(code)), !.pc = "return"]

(* fmt.Sprintf("ws://127.0.0.1:%d%s", port, path), plus "?" + rawQS when there is one *)
TargetUrl(port, path, rawQS) ==
    [port |-> port, path |-> path, query |-> rawQS]

(* New, lines 94-117: an upgrade request arrives on /ws; one client is served at a time *)
wsUpgrade ==
    /\ Running /\ mode = "proxy"
    /\ ws.pc \in {"idle", "closed"}
    /\ http.pc \in {"idle", "done"}
    /\ \E h \in Hosts, q \in Queries :
         ws' = [IdleWs EXCEPT !.pc = "resolve", !.host = h, !.path = "/ws", !.rawQS = q]
    /\ http' = IdleHttp
    /\ UNCHANGED <<regVars, mode, runVars>>

(* handler, lines 150-156 *)
wsResolve ==
    /\ Running
    /\ ws.pc = "resolve"
    /\ LET r == GetByDomain(store, ws.host) IN
       ws' = IF ~r.ok THEN CloseAndReturn(ws, CloseNormalClosure)
             ELSE [ws EXCEPT !.pc = "port", !.nb = r.nb]
    /\ UNCHANGED <<regVars, mode, runVars, http>>

(* handler, lines 157-169 *)
wsPort ==
    /\ Running
    /\ ws.pc = "port"
    /\ rmu = 0
    /\ LET r == GetPort(ws.nb.ID) IN
       ws' = IF ~r.ok THEN CloseAndReturn(ws, CloseInternalServerErr)
             ELSE [ws EXCEPT !.pc = "dial", !.port = r.port,
                             !.url = TargetUrl(r.port, ws.path, ws.rawQS)]
    /\ UNCHANGED <<regVars, mode, runVars, http>>

(* mutant: a failed dial is reported as an internal error *)
wsDial_internal ==
    /\ Running
    /\ ws.pc = "dial"
    /\ \E ok \in IF Listening(ws.url.port) THEN BOOLEAN ELSE {FALSE} :
         ws' = IF ~ok THEN CloseAndReturn(ws, CloseInternalServerErr)
               ELSE [ws EXCEPT !.pc = "relay", !.backend = "open", !.reader = "running"]
    /\ UNCHANGED <<regVars, mode, runVars, http>>

(* handler, lines 171-179: websocket.DefaultDialer.Dial(targetUrl); it fails when nothing
   accepts on the port and may fail anyway *)
wsDial ==
    /\ Running
    /\ ws.pc = "dial"
    /\ \E ok \in IF Listening(ws.url.port) THEN BOOLEAN ELSE {FALSE} :
         ws' = IF ~ok THEN CloseAndReturn(ws, CloseTryAgainLater)
               ELSE [ws EXCEPT !.pc = "relay", !.backend = "open", !.reader = "running"]
    /\ UNCHANGED <<regVars, mode, runVars, http>>

(* handler, lines 192-202: conn.ReadMessage returns a client message, which is written
   to the backend; a failed write ends the handler *)
wsClientMessage ==
    /\ Running
    /\ ws.pc = "relay"
    /\ ws.in < MaxMsgs
    /\ \E ok \in IF ws.backend = "open" THEN {TRUE} ELSE {FALSE} :
         ws' = IF ok THEN [ws EXCEPT !.in = @ + 1,
                                     !.toBackend = Append(@, TextFrame("c"))]
               ELSE [ws EXCEPT !.in = @ + 1, !.pc = "return"]
    /\ UNCHANGED <<regVars, mode, runVars, http>>

(* handler, lines 193-198: conn.ReadMessage fails (the client is gone); a close frame is
   written to the backend and the handler returns *)
wsClientGone ==
    /\ Running
    /\ ws.pc = "relay"
    /\ ws' = [ws EXCEPT !.toBackend = IF ws.backend = "open"
                                      THEN Append(@, CloseFrame(CloseNormalClosure)) ELSE @,
                        !.pc = "return"]
    /\ UNCHANGED <<regVars, mode, runVars, http>>

(* reader goroutine, lines 180-190: backend.ReadMessage returns a message, which is
   written to the client *)
wsBackendMessage ==
    /\ Running
    /\ ws.reader = "running"
    /\ ws.backend = "open"
    /\ ws.out < MaxMsgs
    /\ ws' = IF ws.closed THEN [ws EXCEPT !.reader = "done"]
             ELSE [ws EXCEPT !.out = @ + 1, !.sent = Append(@, TextFrame("b"))]
    /\ UNCHANGED <<regVars, mode, runVars, http>>

(* reader goroutine, lines 181-186: backend.ReadMessage fails (the backend is gone or
   backend.Close was called); a close frame is written to the client when it is still
   connected *)
wsBackendGone ==
    /\ Running
    /\ ws.reader = "running"
    /\ ws' = [ws EXCEPT !.reader = "done",
                        !.backend = IF @ = "open" THEN "lost" ELSE @,
                        !.sent = IF ws.closed THEN @
                                 ELSE Append(@, CloseFrame(CloseNormalClosure))]
    /\ UNCHANGED <<regVars, mode, runVars, http>>

(* an unexpected failure inside the per-connection handler *)
wsPanic ==
    /\ Running
    /\ ws.pc \in {"resolve", "port", "dial", "relay"}
    /\ ws' = [ws EXCEPT !.pc = "return", !.panicking = TRUE]
    /\ UNCHANGED <<regVars, mode, runVars, http>>

(* the builtin recover: it returns the panic value only when the goroutine is panicking
   and recover is called directly by the deferred function (depth 1); called from a
   function the deferred function calls (depth 2) it returns nil *)
recover(panicking, depth) == IF panicking /\ depth = 1 THEN "panic" ELSE "nil"

(* defaultRecover, lines 35-40, called at the given depth below the deferred function *)
defaultRecover(f, depth) ==
    LET err == recover(f.panicking, depth) IN
    IF err # "nil"
    THEN [f EXCEPT !.panicking = FALSE, !.sent = Append(@, TextFrame("error"))]
    ELSE f

(* the handler returns or unwinds: defer backend.Close() (line 177), then the deferred
   function of New (lines 118-125), which calls defaultRecover and closes the
   connection. A panic nobody recovered leaves the upgrade callback *)
wsReturn ==
    /\ Running
    /\ ws.pc = "return"
    /\ LET f1 == [ws EXCEPT !.backend = IF @ = "open" THEN "closed" ELSE @]
           f2 == defaultRecover(f1, 2)
           f3 == [f2 EXCEPT !.closed = TRUE]
       IN  /\ ws' = [f3 EXCEPT !.pc = IF f3.panicking THEN "escaped" ELSE "closed"]
           /\ crashed' = f3.panicking
    /\ UNCHANGED <<regVars, mode, shut, managers, mgr, nextPort, rmu, ev, proc, mon, life, http>>

NetInit ==
    /\ http = IdleHttp
    /\ ws = IdleWs

RunInit ==
    /\ managers = <<>>
    /\ mgr = <<>>
    /\ nextPort = 3000
    /\ rmu = 0
    /\ ev = <<>>
    /\ proc = <<>>
    /\ mon = <<>>
    /\ life = [i \in Ids |-> {}]
    /\ crashed = FALSE
    /\ shut = NotStopping

Init ==
    /\ mode = "seq"
    /\ store = <<>>
    /\ used = {}
    /\ call = [t \in {1} |-> IdleFrame]
    /\ RunInit
    /\ NetInit

Next ==
    \/ Invoke(1)
    \/ Add
    \/ Update
    \/ Delete
    \/ Done(1)

Spec == Init /\ [][Next]_vars

InitConc ==
    /\ mode = "conc"
    /\ store = <<>>
    /\ used = {}
    /\ call = [t \in 1..NumCallers |-> IdleFrame]
    /\ RunInit
    /\ NetInit

NextConc ==
    \/ \E t \in 1..NumCallers : Invoke(t)
    \/ \E t \in 1..NumCallers : AddStep(t)
    \/ \E t \in 1..NumCallers : UpdateStep(t)
    \/ \E t \in 1..NumCallers : DeleteStep(t)
    \/ \E t \in 1..NumCallers : Done(t)

SpecConc == InitConc /\ [][NextConc]_vars

(* the stored record of id i a registry is constructed over *)
StoredRecord(i) ==
    [ID |-> i, Name |-> "a", Path |-> "/a", Domain |-> DomainOf(i),
     ShowCode |-> FALSE, Watch |-> FALSE, CreatedAt |-> i]

(* loadExistingNotebooks: the iterator publishes the next stored record as Added *)
loadExistingNotebooks ==
    /\ Running /\ mode \in {"boot", "proxy", "hub"}
    /\ call[1].pc = "idle" /\ call[1].n = 0      \* NewBadgerRegistry has not returned
    /\ \E i \in DOMAIN store :
         /\ life[i] = {}
         /\ \A j \in DOMAIN store : j < i => life[j] # {}
         /\ \A e \in call[1].wait : ev[e].pc = "done"
         /\ LET g == go(ev, store[i], ActionAdd) IN
              /\ ev' = g.ev
              /\ call' = [call EXCEPT ![1].wait = g.wait]
         /\ life' = [life EXCEPT ![i] = {ActionAdd}]
    /\ UNCHANGED <<store, used, netVars, mode, shut, managers, mgr, nextPort, rmu, proc, mon,
                 crashed>>

InitRun ==
    /\ mode = "run"
    /\ store = <<>>
    /\ used = {}
    /\ call = [t \in {1} |-> IdleFrame]
    /\ RunInit
    /\ NetInit

(* SpecRun follows the events of one workload *)
OneId == {1}

NextRun ==
    \/ \E id \in OneId, action \in {ActionAdd, ActionUpdate, ActionDelete} :
         HandleRegistryEvent(id, action)
    \/ \E e \in 1..Len(ev) : update(e)
    \/ \E e \in 1..Len(ev) : updateStop(e)
    \/ \E e \in 1..Len(ev) : updateStart(e)
    \/ \E e \in 1..Len(ev) : startNew(e)
    \/ \E p \in 1..Len(proc) : ProcessExit(p)
    \/ \E p \in 1..Len(proc) : monitorBegin(p)
    \/ \E p \in 1..Len(proc) : monitorWait(p)
    \/ \E p \in 1..Len(proc) : monitorFinish(p)

SpecRun == InitRun /\ [][NextRun]_vars

(* the supervisor driven by registry events until Runner.Stop has returned *)
InitStop ==
    /\ mode = "stop"
    /\ store = <<>>
    /\ used = {}
    /\ call = [t \in {1} |-> IdleFrame]
    /\ RunInit
    /\ NetInit

(* what the supervisor's goroutines and os/exec do by themselves once started *)
StopInternal ==
    \/ StopLock
    \/ \E h \in DOMAIN mgr : StopManager(h)
    \/ StopReturn
    \/ \E e \in 1..Len(ev) : update(e)
    \/ \E e \in 1..Len(ev) : updateStop(e)
    \/ \E e \in 1..Len(ev) : updateStart(e)
    \/ \E e \in 1..Len(ev) : startNew(e)
    \/ \E p \in 1..Len(proc) : ctxKill(p)
    \/ \E p \in 1..Len(proc) : monitorBegin(p)
    \/ \E p \in 1..Len(proc) : monitorWait(p)
    \/ \E p \in 1..Len(proc) : monitorFinish(p)

NextStop ==
    \/ \E id \in OneId, action \in {ActionAdd, ActionUpdate, ActionDelete} :
         HandleRegistryEvent(id, action)
    \/ StopCancel
    \/ StopLock
    \/ \E h \in DOMAIN mgr : StopManager(h)
    \/ StopReturn
    \/ \E e \in 1..Len(ev) : update(e)
    \/ \E e \in 1..Len(ev) : updateStop(e)
    \/ \E e \in 1..Len(ev) : updateStart(e)
    \/ \E e \in 1..Len(ev) : startNew(e)
    \/ \E p \in 1..Len(proc) : ProcessExit(p)
    \/ \E p \in 1..Len(proc) : ctxKill(p)
    \/ \E p \in 1..Len(proc) : monitorBegin(p)
    \/ \E p \in 1..Len(proc) : monitorWait(p)
    \/ \E p \in 1..Len(proc) : monitorFinish(p)

SpecStop == InitStop /\ [][NextStop]_vars

(* The earlier Runner of src/unnamed/part_001 *)

(* the handler goroutine that holds m.mu of handle h across steps: update keeps it
   (defer m.mu.Unlock(), line 166) until it returns *)
MuHeld(h) == \E e \in 1..Len(ev) : ev[e].pc = "blocked" /\ ev[e].h = h

(* part_001, handleNotebook, lines 43-60, run by goroutine e for nb: under r.mu, find the
   manager or create one with port := r.nextPort; r.nextPort++ *)
oldHandleNotebookAt(e, nb, evs) ==
    /\ rmu = 0
    /\ LET id == nb.ID IN
       IF id \in DOMAIN managers
       THEN /\ rmu' = e
            /\ ev' = [evs EXCEPT ![e].pc = "update", ![e].h = managers[id]]
            /\ UNCHANGED <<managers, mgr, nextPort>>
       ELSE /\ nextPort - BasePort < MaxHandles
            /\ nextPort' = nextPort + 1
            /\ mgr' = mgr @@ (nextPort :> NewManager(nb, nextPort))
            /\ managers' = managers @@ (id :> nextPort)
            /\ ev' = [evs EXCEPT ![e].pc = "start_new", ![e].h = nextPort]
            /\ rmu' = 0

(* part_001, HandleRegistryEvent, lines 28-40: the registry has published a mutation of
   id and the goroutine of its handler gets r.mu *)
oldHandleRegistryEvent(id, action) ==
    /\ Running /\ mode = "old"
    /\ Len(ev) < MaxEvents
    /\ action \in {ActionAdd, ActionDelete} => action \notin life[id]
    /\ life' = [life EXCEPT ![id] = @ \cup {action}]
    /\ \E nb \in RecordsOf(id) :
         LET e == Len(ev) + 1
             evs == Append(ev, NewEvent(nb, action))
         IN  IF action = ActionDelete
             THEN handleDeleteAt(e, nb, evs) /\ UNCHANGED mon
             ELSE oldHandleNotebookAt(e, nb, evs) /\ UNCHANGED <<proc, mon>>
    /\ UNCHANGED <<regVars, netVars, mode, shut, crashed>>

(* part_001, update, lines 164-178: m.mu.Lock() with the unlock deferred, m.notebook = nb;
   without a process it returns and handleNotebook releases r.mu. With a process it
   calls m.stop(), whose first statement is m.mu.Lock() (line 148): sync.RWMutex is not
   reentrant, the goroutine waits for the lock it holds itself *)
oldUpdate(e) ==
    /\ Running /\ mode = "old"
    /\ ev[e].pc = "update"
    /\ ~MuHeld(ev[e].h)
    /\ LET h == ev[e].h IN
       /\ mgr' = [mgr EXCEPT ![h].notebook = ev[e].nb]
       /\ IF mgr[h].cmd # 0
          THEN /\ ev' = [ev EXCEPT ![e].pc = "blocked", ![e].hadLive = Alive(mgr[h].cmd)]
               /\ UNCHANGED rmu
          ELSE /\ ev' = [ev EXCEPT ![e] = DoneEvent]
               /\ rmu' = 0
    /\ UNCHANGED <<regVars, netVars, mode, shut, managers, nextPort, proc, mon, life, crashed>>

(* part_001, handleNotebook, line 62: newManager.start(), after r.mu was released *)
oldStartNew(e) ==
    /\ mode = "old"
    /\ ~MuHeld(ev[e].h)
    /\ startNew(e)

(* part_001, monitor, lines 191-196: every error of Wait is a failure *)
oldMonitorStatus(err) == IF err # "nil" THEN StatusError ELSE StatusStopped

(* part_001, monitor, lines 188-198: under m.mu, set the status and clear m.cmd *)
oldMonitorFinish(p) ==
    /\ Running /\ mode = "old"
    /\ mon[p].pc = "woken"
    /\ ~MuHeld(proc[p].h)
    /\ mgr' = [mgr EXCEPT ![proc[p].h].status = oldMonitorStatus(mon[p].err),
                          ![proc[p].h].cmd = 0]
    /\ mon' = [mon EXCEPT ![p] = DoneMonitor]
    /\ UNCHANGED <<regVars, netVars, mode, shut, managers, nextPort, rmu, ev, proc, life,
                   crashed>>

InitOld ==
    /\ mode = "old"
    /\ store = <<>>
    /\ used = {}
    /\ call = [t \in {1} |-> IdleFrame]
    /\ RunInit
    /\ NetInit

NextOld ==
    \/ \E id \in OneId, action \in {ActionAdd, ActionUpdate, ActionDelete} :
         oldHandleRegistryEvent(id, action)
    \/ \E e \in 1..Len(ev) : oldUpdate(e)
    \/ \E e \in 1..Len(ev) : oldStartNew(e)
    \/ \E p \in 1..Len(proc) : ProcessExit(p)
    \/ \E p \in 1..Len(proc) : monitorBegin(p)
    \/ \E p \in 1..Len(proc) : monitorWait(p)
    \/ \E p \in 1..Len(proc) : oldMonitorFinish(p)

(* the Runner of part_001 driven by the events of one workload *)
SpecOld == InitOld /\ [][NextOld]_vars

(* the ports the program itself listens on with the default configuration *)
SystemPorts == {80, 8080, 8081}

MaxCreated == 5100  \* handles one Runner creates in SpecPorts

(* One workload is added and deleted over and over. handleNotebook, lines 67-73, for an
   id that has no handle: the counter is advanced and the new handle gets its value;
   the handle the Deleted event removed before (lines 41-47) is gone. No process is
   launched in this specification. *)
CreateHandle ==
    /\ Running /\ mode = "ports"
    /\ nextPort - BasePort < MaxCreated
    /\ nextPort' = nextPort + 1
    /\ mgr' = (nextPort + 1 :> NewManager(StoredRecord(1), nextPort + 1))
    /\ managers' = (1 :> nextPort + 1)
    /\ UNCHANGED <<regVars, netVars, mode, shut, rmu, ev, proc, mon, life, crashed>>

InitPorts ==
    /\ mode = "ports"
    /\ store = <<>>
    /\ used = {}
    /\ call = [t \in {1} |-> IdleFrame]
    /\ RunInit
    /\ NetInit

NextPorts == CreateHandle

(* the port counter of one Runner over its lifetime *)
SpecPorts == InitPorts /\ [][NextPorts]_vars

(* main: NewRunner, then NewBadgerRegistry over a store that already holds records *)
InitBoot ==
    /\ mode = "boot"
    /\ \E S \in SUBSET Ids : store = [i \in S |-> StoredRecord(i)]
    /\ used = DOMAIN store
    /\ call = [t \in {1} |-> IdleFrame]
    /\ RunInit
    /\ NetInit

NextBoot ==
    \/ loadExistingNotebooks
    \/ \E e \in 1..Len(ev) : HandlePending(e)
    \/ \E e \in 1..Len(ev) : startNew(e)
    \/ \E p \in 1..Len(proc) : ProcessExit(p)
    \/ \E p \in 1..Len(proc) : monitorBegin(p)
    \/ \E p \in 1..Len(proc) : monitorWait(p)
    \/ \E p \in 1..Len(proc) : monitorFinish(p)

SpecBoot == InitBoot /\ [][NextBoot]_vars

(* the records a registry that serves proxied requests was constructed over: a record
   other than the first holds any of Domains, also the one the first record holds *)
ProxyStores ==
    UNION {{[i \in S |-> IF i = 1 THEN StoredRecord(i) ELSE [StoredRecord(i) EXCEPT !.Domain = d]]
              : d \in Domains} : S \in SUBSET Ids}

InitProxy ==
    /\ mode = "proxy"
    /\ store \in ProxyStores
    /\ used = DOMAIN store
    /\ call = [t \in {1} |-> IdleFrame]
    /\ RunInit
    /\ NetInit

NextProxy ==
    \/ loadExistingNotebooks
    \/ \E e \in 1..Len(ev) : HandlePending(e)
    \/ \E e \in 1..Len(ev) : startNew(e)
    \/ \E p \in 1..Len(proc) : ProcessExit(p)
    \/ \E p \in 1..Len(proc) : monitorBegin(p)
    \/ \E p \in 1..Len(proc) : monitorWait(p)
    \/ \E p \in 1..Len(proc) : monitorFinish(p)
    \/ httpRequest
    \/ httpResolve
    \/ httpPort
    \/ httpStatus
    \/ httpForward
    \/ wsUpgrade
    \/ wsResolve
    \/ wsPort
    \/ wsDial
    \/ wsClientMessage
    \/ wsClientGone
    \/ wsBackendMessage
    \/ wsBackendGone
    \/ wsPanic
    \/ wsReturn

SpecProxy == InitProxy /\ [][NextProxy]_vars

(* the whole program (cmd/main.go): the registry is constructed over the database with
   the supervisor subscribed, then the API serves Add, Update and Delete *)
HubStores == {<<>>, (1 :> StoredRecord(1))}

(* the requests the API callers send *)
HubRequests ==
    {[ZeroRequest EXCEPT !.Name = "a", !.Path = "/a", !.Domain = d] : d \in Domains}
    \cup {[ZeroRequest EXCEPT !.Path = "/b"]}

InitHub ==
    /\ mode = "hub"
    /\ store \in HubStores
    /\ used = DOMAIN store
    /\ call = [t \in {1} |-> IdleFrame]
    /\ RunInit
    /\ NetInit

(* NewBadgerRegistry has returned: every stored record was replayed *)
Constructed == \A i \in DOMAIN store : life[i] # {}

(* an API handler calls the registry *)
HubInvoke ==
    /\ Running /\ mode = "hub"
    /\ call[1].pc = "idle"
    /\ call[1].n < MaxCalls
    /\ call[1].n = 0 => Constructed
    /\ \E op \in {"Add", "Update", "Delete"} :
       \E id \in (IF op = "Add" THEN {0} ELSE Ids) :
       \E req \in (IF op = "Delete" THEN {ZeroRequest} ELSE HubRequests) :
         /\ op = "Add" => FreshIds # {}
         /\ call' = [call EXCEPT ![1] = NewFrame(op, id, req, <<>>, call[1].n + 1)]
    /\ UNCHANGED <<store, used, mode, runVars, netVars>>

(* the registry call runs to its return; what it published goes to the supervisor *)
HubCall ==
    /\ Running /\ mode = "hub"
    /\ call[1].pc \notin {"idle", "ret"}
    /\ \E newid \in (IF FreshIds = {} THEN {0} ELSE FreshIds) :
       \E s \in {RunCall([f |-> call[1], store |-> store, used |-> used], newid)} :
         /\ store' = s.store
         /\ used' = s.used
         /\ IF s.f.notified = <<>>
            THEN /\ call' = [call EXCEPT ![1] = [IdleFrame EXCEPT !.pc = "ret", !.n = s.f.n,
                                                                  !.out = s.f.out]]
                 /\ UNCHANGED <<ev, life>>
            ELSE LET m == s.f.notified[1]
                     g == go(ev, m.nb, m.action)
                 IN  /\ ev' = g.ev
                     /\ life' = [life EXCEPT ![m.nb.ID] = @ \cup {m.action}]
                     /\ call' = [call EXCEPT ![1] = [IdleFrame EXCEPT !.pc = "ret",
                                     !.n = s.f.n, !.out = s.f.out, !.wait = g.wait]]
    /\ UNCHANGED <<netVars, mode, shut, managers, mgr, nextPort, rmu, proc, mon, crashed>>

(* the registry call returns to the API handler *)
HubDone ==
    /\ Running /\ mode = "hub"
    /\ call[1].pc = "ret"
    /\ \A e \in call[1].wait : ev[e].pc = "done"
    /\ call' = [call EXCEPT ![1] = [IdleFrame EXCEPT !.n = call[1].n]]
    /\ UNCHANGED <<store, used, mode, runVars, netVars>>

NextHub ==
    \/ loadExistingNotebooks
    \/ HubInvoke
    \/ HubCall
    \/ HubDone
    \/ \E e \in 1..Len(ev) : HandlePending(e)
    \/ \E e \in 1..Len(ev) : update(e)
    \/ \E e \in 1..Len(ev) : updateStop(e)
    \/ \E e \in 1..Len(ev) : updateStart(e)
    \/ \E e \in 1..Len(ev) : startNew(e)
    \/ \E p \in 1..Len(proc) : ProcessExit(p)
    \/ \E p \in 1..Len(proc) : monitorBegin(p)
    \/ \E p \in 1..Len(proc) : monitorWait(p)
    \/ \E p \in 1..Len(proc) : monitorFinish(p)

SpecHub == InitHub /\ [][NextHub]_vars

----------------------------------------------------------------------------
(* Registry claims *)

Returned(op) == mode = "seq" /\ call[1].pc = "ret" /\ call[1].op = op
Holders(st, d) == {i \in DOMAIN st : st[i].Domain = d}
ValidCreate(req) == req.Name # "" /\ req.Path # "" /\ req.Domain # ""

(* C1: in every reachable state, under any interleaving of concurrent Add, Update and
   Delete calls, no two persisted records with different ids hold the same domain *)
C1_DomainUnique ==
    \A i \in DOMAIN store : \A j \in DOMAIN store :
        i # j => store[i].Domain # store[j].Domain

(* C2: a creation request with non-empty name, path and domain succeeds exactly when no
   persisted record holds its domain; on success GetByDomain finds the record with the
   id Add returned; on a domain in use Add reports the conflict, the persisted records
   are unchanged and nothing is published *)
C2_AddByDomain ==
    (Returned("Add") /\ ValidCreate(call[1].req)) =>
        LET f == call[1] IN
        /\ (f.out = "ok") <=> (Holders(f.pre, f.req.Domain) = {})
        /\ f.out = "ok" =>
              /\ f.ret.ID \in DOMAIN store
              /\ f.ret.ID \notin DOMAIN f.pre
              /\ GetByDomain(store, f.req.Domain).ok
              /\ GetByDomain(store, f.req.Domain).nb.ID = f.ret.ID
        /\ f.out # "ok" =>
              /\ f.out = "conflict"
              /\ store = f.pre
              /\ f.notified = <<>>

C2_Witness ==
    /\ Returned("Add") /\ ValidCreate(call[1].req)
    /\ call[1].out = "conflict"
    /\ Cardinality(DOMAIN store) = 2

(* C3: Add with an empty name, path or domain fails with the validation error, persists
   nothing and publishes nothing, whatever the other fields and the registry hold *)
C3_AddValidation ==
    (Returned("Add") /\ ~ValidCreate(call[1].req)) =>
        /\ call[1].out = "invalid"
        /\ store = call[1].pre
        /\ ~call[1].wrote
        /\ call[1].notified = <<>>

C3_Witness ==
    /\ Returned("Add")
    /\ call[1].req.Path = "" /\ call[1].req.Name # "" /\ call[1].req.Domain # ""
    /\ Holders(store, call[1].req.Domain) = {}
    /\ store # <<>>

(* a request none of whose present fields differs from the record *)
ChangesNothing(req, nb) ==
    /\ req.Name \in {"", nb.Name}
    /\ req.Path \in {"", nb.Path}
    /\ req.Domain \in {"", nb.Domain}
    /\ req.ShowCode \in {"nil", IF nb.ShowCode THEN "true" ELSE "false"}
    /\ req.Watch \in {"nil", IF nb.Watch THEN "true" ELSE "false"}

(* C4: an Update of an existing id that changes no stored field returns the stored
   record, writes nothing and invokes no subscriber *)
C4_UpdateNoChange ==
    (/\ Returned("Update")
     /\ call[1].id \in DOMAIN call[1].pre
     /\ ChangesNothing(call[1].req, call[1].pre[call[1].id])) =>
        /\ call[1].out = "nochange"
        /\ call[1].ret = call[1].pre[call[1].id]
        /\ ~call[1].wrote
        /\ store = call[1].pre
        /\ call[1].notified = <<>>

C4_Witness ==
    /\ Returned("Update")
    /\ call[1].id \in DOMAIN call[1].pre
    /\ ChangesNothing(call[1].req, call[1].pre[call[1].id])
    /\ call[1].req.Name # "" /\ call[1].req.Path # "" /\ call[1].req.Domain # ""
    /\ call[1].req.ShowCode # "nil" /\ call[1].req.Watch # "nil"
    /\ Cardinality(DOMAIN store) = 2

(* C5: an Update whose domain is held by a record with a different id fails with the
   domain conflict, leaves every record as it was and publishes nothing *)
C5_UpdateConflict ==
    (/\ Returned("Update")
     /\ call[1].id \in DOMAIN call[1].pre
     /\ call[1].req.Domain # ""
     /\ Holders(call[1].pre, call[1].req.Domain) \ {call[1].id} # {}) =>
        /\ call[1].out = "conflict"
        /\ store = call[1].pre
        /\ ~call[1].wrote
        /\ call[1].notified = <<>>

C5_Witness ==
    /\ Returned("Update")
    /\ call[1].id \in DOMAIN call[1].pre
    /\ call[1].req = [ZeroRequest EXCEPT !.Domain = "d2"]
    /\ Holders(call[1].pre, "d2") \ {call[1].id} # {}
    /\ call[1].out = "conflict"

(* C6: Update on an id with no persisted record fails with NotFound for every partial
   request, also one whose domain some existing record holds, and persists and
   publishes nothing *)
C6_UpdateUnknown ==
    (Returned("Update") /\ call[1].id \notin DOMAIN call[1].pre) =>
        /\ call[1].out = "notfound"
        /\ store = call[1].pre
        /\ call[1].notified = <<>>

(* C7: Delete of an id with no record fails with NotFound, changes nothing and
   publishes nothing; Delete of a persisted id removes exactly that record, a later
   Get misses, and one Deleted event carries the record as it was before removal *)
C7_Delete ==
    Returned("Delete") =>
        LET f == call[1] IN
        /\ f.id \notin DOMAIN f.pre =>
              /\ f.out = "notfound"
              /\ store = f.pre
              /\ f.notified = <<>>
        /\ f.id \in DOMAIN f.pre =>
              /\ f.out = "ok"
              /\ DOMAIN store = DOMAIN f.pre \ {f.id}
              /\ \A i \in DOMAIN store : store[i] = f.pre[i]
              /\ ~Get(store, f.id).ok
              /\ f.notified = <<[nb |-> f.pre[f.id], action |-> ActionDelete]>>

C7_Witness ==
    /\ Returned("Delete")
    /\ call[1].id \in DOMAIN call[1].pre
    /\ call[1].out = "ok"
    /\ store # <<>>

----------------------------------------------------------------------------
(* Supervisor claims *)

Replayed == {i \in DOMAIN store : life[i] # {}}
BootDone ==
    /\ mode = "boot"
    /\ Replayed = DOMAIN store
    /\ \A e \in 1..Len(ev) : ev[e].pc = "done"

(* C8: a registry constructed over a store holding N records, with the supervisor as
   its subscriber, publishes one Added event per stored record, and once all of them
   are processed the supervisor holds exactly one handle per persisted id and no other
   handle, each with a distinct port *)
C8_ReplayRebuilds ==
    mode = "boot" =>
        /\ Len(ev) = Cardinality(Replayed)
        /\ \A e \in 1..Len(ev) :
             ev[e].pc # "done" =>
                 /\ ev[e].action = ActionAdd
                 /\ ev[e].nb.ID \in Replayed
                 /\ ev[e].nb = store[ev[e].nb.ID]
                 /\ \A e2 \in 1..Len(ev) : ev[e2].nb.ID = ev[e].nb.ID => e2 = e
        /\ BootDone =>
             /\ DOMAIN managers = DOMAIN store
             /\ DOMAIN mgr = {managers[i] : i \in DOMAIN managers}
             /\ \A i \in DOMAIN managers : \A j \in DOMAIN managers :
                  i # j => GetPort(i).port # GetPort(j).port
             /\ \A i \in DOMAIN managers :
                  /\ mgr[managers[i]].notebook.ID = i
                  /\ GetPort(i).port > BasePort

C8_Witness ==
    /\ BootDone
    /\ Cardinality(DOMAIN store) >= 2
    /\ Cardinality(DOMAIN mgr) = Cardinality(DOMAIN store)

(* C9: handling an Added or Updated event for an id whose handle owns a live process
   replaces the snapshot, kills that process and launches a new one built from the
   updated record on the same port, also when the old process exits by itself while
   the event is handled. Stated on the steps of such a handler: the stop step goes on
   to the relaunch, and a relaunch that starts a process starts it from the event's
   record on the unchanged port *)
C9_RestartOnUpdate ==
    [][\A e \in 1..Len(ev) :
         (ev[e].pc \in {"stop", "restart"} /\ ev[e].hadLive /\ ev'[e] # ev[e]) =>
             LET h == ev[e].h IN
             /\ mgr'[h].port = mgr[h].port
             /\ mgr'[h].notebook = ev[e].nb
             /\ ev[e].pc = "stop" =>
                  /\ ev'[e].pc = "restart"
                  /\ mgr'[h].cmd = 0
             /\ (ev[e].pc = "restart" /\ mgr'[h].cmd # 0) =>
                  /\ Len(proc') = Len(proc) + 1
                  /\ mgr'[h].cmd = Len(proc')
                  /\ proc'[Len(proc')].st = "running"
                  /\ proc'[Len(proc')].args.path = ev[e].nb.Path
                  /\ proc'[Len(proc')].args.watch = ev[e].nb.Watch
                  /\ proc'[Len(proc')].args.port = mgr[h].port]_vars

(* C10: once a handle's process has been killed by Stop, the monitor of the killed
   process, whenever it runs afterwards, does not set Error. Stated for the handles the
   supervisor still holds, none of whose processes ended by itself *)
C10_StopNeverError ==
    [][\A p \in 1..Len(mon) :
         (/\ mon[p].pc = "woken" /\ mon'[p].pc = "done"
          /\ proc[p].st = "killed"
          /\ \E i \in DOMAIN managers : managers[i] = proc[p].h
          /\ \A q \in 1..Len(proc) :
               proc[q].h = proc[p].h => proc[q].st \in {"running", "killed"}) =>
             mgr'[proc[p].h].status # StatusError]_vars

(* C11: when a started process ends without the supervisor having killed it, its
   monitor sets Error if the exit was abnormal (non-zero exit code or a signal, also a
   kill signal sent from outside) and Stopped only if it was clean, and clears the
   process reference so that a later start is not refused *)
C11_MonitorExit ==
    [][\A p \in 1..Len(mon) :
         (/\ mon[p].pc = "woken" /\ mon'[p].pc = "done"
          /\ mon[p].target = p
          /\ mon[p].err # "exec: Wait was already called"
          /\ proc[p].st \in {"exit0", "exit1", "sigkill"}) =>
             /\ mgr'[proc[p].h].cmd = 0
             /\ start(mgr', proc', mon', proc[p].h, TRUE).res = "ok"
             /\ mgr'[proc[p].h].status =
                    IF proc[p].st = "exit0" THEN StatusStopped ELSE StatusError]_vars

(* C12: start on a handle that owns a process (its process reference is set) fails with
   AlreadyRunning, and stop on a handle that owns none fails with NotRunning; the failed
   call leaves the handle's process reference, status, port and snapshot as they were
   and launches or kills no process. Stated of both methods on every handle of every
   reachable state *)
C12_StartStopGuards ==
    \A h \in DOMAIN mgr :
        /\ mgr[h].cmd # 0 =>
             \A launch \in BOOLEAN :
                 LET r == start(mgr, proc, mon, h, launch) IN
                 /\ r.res = "AlreadyRunning"
                 /\ r.mgr = mgr /\ r.proc = proc /\ r.mon = mon
        /\ mgr[h].cmd = 0 =>
             LET r == stop(h) IN
             /\ r.res = "NotRunning"
             /\ r.mgr = mgr /\ r.proc = proc

C12_Witness ==
    \E h1 \in DOMAIN mgr : \E h2 \in DOMAIN mgr :
        /\ mgr[h1].cmd = 0 /\ mgr[h1].status = StatusError
        /\ mgr[h2].cmd # 0 /\ Alive(mgr[h2].cmd) /\ mgr[h2].status = StatusRunning

----------------------------------------------------------------------------
(* Proxy claims *)

(* the handles ever created for the record of id i *)
HandlesOf(i) == {h \in DOMAIN mgr : mgr[h].notebook.ID = i}

(* C13: an HTTP request whose hostname no record owns is answered 404; one whose record
   has no port at the supervisor, or whose handle is not Running, is answered 500;
   otherwise it is forwarded with the same method, path and body to the port of the
   record's handle and the backend's status code and body are returned as they are. It
   is never forwarded to a port of the handle of a different record. Stated on each
   step of the middleware against the registry and supervisor state it runs in *)
C13_HttpProxy ==
    [][/\ (http.pc = "resolve" /\ http'.pc # "resolve") =>
             IF Holders(store, http.host) = {}
             THEN http'.pc = "done" /\ http'.resp.code = 404 /\ http'.fwd = NoForward
             ELSE /\ http'.pc = "port"
                  /\ http'.nb.ID \in Holders(store, http.host)
                  /\ http'.nb = store[http'.nb.ID]
       /\ (http.pc = "port" /\ http'.pc # "port") =>
             IF http.nb.ID \notin DOMAIN managers
             THEN http'.pc = "done" /\ http'.resp.code = 500 /\ http'.fwd = NoForward
             ELSE http'.pc = "status" /\ http'.port = mgr[managers[http.nb.ID]].port
       /\ (http.pc = "status" /\ http'.pc # "status") =>
             IF \/ http.nb.ID \notin DOMAIN managers
                \/ mgr[managers[http.nb.ID]].status # StatusRunning
             THEN http'.pc = "done" /\ http'.resp.code = 500 /\ http'.fwd = NoForward
             ELSE http'.pc = "forward"
       /\ (http.pc = "forward" /\ http'.pc # "forward") =>
             /\ http'.pc = "done"
             /\ http'.fwd.method = http.method
             /\ http'.fwd.path = http.path
             /\ http'.fwd.body = http.body
             /\ \E h \in HandlesOf(http.nb.ID) : mgr[h].port = http'.fwd.port
             /\ \A h \in DOMAIN mgr :
                  h \notin HandlesOf(http.nb.ID) => mgr[h].port # http'.fwd.port
             /\ http'.back = NoResponse => http'.resp.code = 500
             /\ http'.back # NoResponse =>
                  \/ http'.resp = http'.back
                  \/ http'.resp = [code |-> 500, body |-> "Failed to read response"]]_vars

C13_Witness ==
    /\ http.pc = "done"
    /\ http.method = "POST"
    /\ http.resp = [code |-> 200, body |-> "page"]
    /\ http.nb.ID = 2
    /\ Cardinality(Holders(store, http.host)) = 1
    /\ Cardinality(DOMAIN managers) = 2

(* C18: on the WebSocket path a failed resolution sends the client exactly one close
   frame, whose code is 1000 when no record owns the hostname, 1011 when the supervisor
   has no port for the record's id and 1013 when dialling the backend fails; no backend
   connection stays open, the handler ends and the client connection is closed *)
C18_WsCloseCodes ==
    [][/\ (ws.pc = "resolve" /\ ws'.pc # "resolve" /\ ~ws'.panicking) =>
             IF Holders(store, ws.host) = {}
             THEN /\ ws'.pc = "return"
                  /\ ws'.sent = <<CloseFrame(1000)>>
                  /\ ws'.backend = "none"
             ELSE ws'.pc = "port" /\ ws'.sent = <<>>
       /\ (ws.pc = "port" /\ ws'.pc # "port" /\ ~ws'.panicking) =>
             IF ws.nb.ID \notin DOMAIN managers
             THEN /\ ws'.pc = "return"
                  /\ ws'.sent = <<CloseFrame(1011)>>
                  /\ ws'.backend = "none"
             ELSE ws'.pc = "dial" /\ ws'.sent = <<>>
       /\ (ws.pc = "dial" /\ ws'.pc # "dial" /\ ~ws'.panicking) =>
             /\ ~Listening(ws.port) => ws'.backend # "open"
             /\ IF ws'.backend # "open"
                THEN /\ ws'.pc = "return"
                     /\ ws'.sent = <<CloseFrame(1013)>>
                     /\ ws'.backend = "none"
                ELSE ws'.pc = "relay" /\ ws'.sent = <<>>
       /\ (ws.pc = "return" /\ ws'.pc # "return" /\ ~ws.panicking /\ ws.backend = "none") =>
             /\ ws'.pc = "closed"
             /\ ws'.closed
             /\ ws'.sent = ws.sent
             /\ Len(ws'.sent) = 1
             /\ ws'.sent[1].type = "close"
             /\ ws'.backend = "none" /\ ws'.reader = "none"
             /\ ~crashed']_vars

C18_Witness ==
    /\ ws.pc = "closed"
    /\ ws.sent = <<CloseFrame(1013)>>
    /\ ws.closed
    /\ Listening(ws.port)

(* C19: a panic raised inside the per-connection WebSocket handler is recovered by the
   recovery handler: it does not leave the upgrade callback and cannot end the
   listening process, the client is sent an error payload, and the connection is then
   closed *)
C19_PanicRecovered ==
    [][(ws.pc = "return" /\ ws.panicking /\ ws'.pc # "return") =>
           /\ ws'.pc = "closed"
           /\ ~ws'.panicking
           /\ ~crashed'
           /\ ws'.closed
           /\ ws'.sent = Append(ws.sent, TextFrame("error"))]_vars

(* C14: once the supervisor has processed the Deleted event of an id, whatever handler
   of an earlier Added or Updated event of that id is still running, the id has no
   handle, GetStatus fails and GetPort finds nothing, and no process launched for the
   id is alive *)
C14_DeletedGone ==
    mode = "run" =>
        \A id \in Ids :
            ActionDelete \in life[id] =>
                /\ id \notin DOMAIN managers
                /\ GetStatus(id).err # "nil"
                /\ ~GetPort(id).ok
                /\ \A p \in 1..Len(proc) :
                     mgr[proc[p].h].notebook.ID = id => proc[p].st # "running"

(* C15: the first handle of a Runner gets port 3001, every later new handle a strictly
   larger port, the port of a handle never changes, and no two handles ever created,
   destroyed ones included, have the same port *)
C15_Ports ==
    [][/\ \A h \in DOMAIN mgr : h \in DOMAIN mgr' /\ mgr'[h].port = mgr[h].port
       /\ \A id \in DOMAIN managers' :
            (id \notin DOMAIN managers \/ managers'[id] # managers[id]) =>
                LET h == managers'[id] IN
                /\ h \notin DOMAIN mgr
                /\ DOMAIN mgr' = DOMAIN mgr \cup {h}
                /\ DOMAIN mgr = {} => mgr'[h].port = 3001
                /\ \A g \in DOMAIN mgr : mgr'[h].port > mgr[g].port]_vars

C15_Witness ==
    /\ mode = "run"
    /\ Cardinality(DOMAIN mgr) = 2
    /\ Cardinality(DOMAIN managers) = 1
    /\ \E h \in DOMAIN mgr : mgr[h].port = 3001 /\ mgr[h].cmd = 0
    /\ \E h \in DOMAIN mgr : mgr[h].port = 3002 /\ mgr[h].status = StatusRunning
                             /\ managers[1] = h

(* a handler that has accessed its handle and will access it again *)
Busy(e) == ev[e].pc \in {"stop", "restart", "start_new"}

(* C16: two events of one id are never processed concurrently: while the handler of one
   event is between its first and its last access to the id's handle, the first start
   of a new handle included, no handler of another event reads or modifies that handle *)
C16_Serialized ==
    [][\A e1 \in 1..Len(ev) :
         (Busy(e1) /\ ev'[e1] = ev[e1]) =>
             /\ \A e2 \in 1..Len(ev) :
                  (/\ e2 # e1 /\ ev[e2].h = ev[e1].h
                   /\ ev[e2].pc \in {"update", "stop", "restart", "start_new"})
                      => ev'[e2] = ev[e2]
             /\ \A id \in DOMAIN managers :
                  managers[id] = ev[e1].h => id \in DOMAIN managers']_vars

----------------------------------------------------------------------------
(* Whole-program claims *)

(* C17: Add, Update, Delete and the startup replay return to their caller without
   waiting for any subscriber. In every state of the running program the replay can
   publish its next record and a registry call that has published can return to its
   caller, whatever the handlers of the published events are doing or waiting for *)
C17_NotifyNeverBlocks ==
    (mode = "hub" /\ Running) =>
        /\ (call[1].n = 0 /\ ~Constructed) => ENABLED loadExistingNotebooks
        /\ call[1].pc = "ret" => ENABLED HubDone

C17_Witness ==
    /\ mode = "hub" /\ Running
    /\ call[1].pc = "ret" /\ call[1].out = "ok"
    /\ Len(ev) >= 2
    /\ ev[Len(ev)].pc = "pending"
    /\ rmu # 0

(* every handler of a published event has returned and no call is in progress *)
Quiescent ==
    /\ mode = "hub"
    /\ Constructed
    /\ call[1].pc = "idle"
    /\ \A e \in 1..Len(ev) : ev[e].pc = "done"

(* C20: after any sequence of successful Add, Update and Delete calls, once every
   published event has been processed, in whatever order the dispatch delivered them,
   the ids that have a handle are the ids that have a persisted record *)
C20_HandlesMatchRecords ==
    Quiescent => DOMAIN managers = DOMAIN store

----------------------------------------------------------------------------
(* Shutdown *)

(* processes the supervisor launched that are still alive *)
LiveProcs == {p \in 1..Len(proc) : proc[p].st = "running"}

(* C21: after Runner.Stop has returned and with no further registry event delivered,
   every process the supervisor launched is eventually dead and no handle keeps a
   reference to a live process, also when a launch was in progress while Stop ran.
   Stated on the states the supervisor ends in: Stop has returned and none of the
   supervisor's goroutines has a step left. *)
C21_StopKillsAll ==
    (mode = "stop" /\ shut.pc = "returned" /\ ~ENABLED StopInternal) =>
        /\ LiveProcs = {}
        /\ \A h \in DOMAIN mgr : ~Alive(mgr[h].cmd)

(* C22: at every reachable state and for every id, at most one external process
   launched for that id is alive, and every live process is the one the current handle
   of its id references. *)
C22_OneLiveProcess ==
    mode = "run" =>
        \A p \in LiveProcs :
            LET id == mgr[proc[p].h].notebook.ID IN
            /\ id \in DOMAIN managers
            /\ mgr[managers[id]].cmd = p

(* the status values of the specification *)
Statuses == {StatusPending, StatusRunning, StatusStopped, StatusError, StatusRestarting}

(* the handle was created by a handler that has not called start on it yet *)
NotYetLaunched(h) == \E e \in 1..Len(ev) : ev[e].pc = "start_new" /\ ev[e].h = h

(* C23: for every id that has a handle, GetStatus returns one of Pending, Running,
   Stopped, Error, Restarting, and a handle that was created and not yet launched
   reports Pending. *)
C23_StatusValues ==
    mode = "run" =>
        \A id \in DOMAIN managers :
            /\ GetStatus(id).status \in Statuses
            /\ NotYetLaunched(managers[id]) => GetStatus(id).status = StatusPending

(* no handler is working on handle h and every monitor of a process of h has returned *)
Settled(h) ==
    /\ \A e \in 1..Len(ev) : ev[e].h # h
    /\ \A p \in 1..Len(proc) : proc[p].h = h => mon[p].pc = "done"

(* C24: if the launch of the process fails while an Added or Updated event is handled
   (also the relaunch of a restart), then once the handler and every monitor of a
   previously killed process of that handle have finished, GetStatus of the id
   returns Error. *)
C24_LaunchFailureIsError ==
    mode = "run" =>
        \A id \in DOMAIN managers :
            (mgr[managers[id]].startErr /\ Settled(managers[id]))
                => GetStatus(id).status = StatusError

(* C25: however many handles a Runner creates, no port assigned to a handle equals one
   of the ports the program itself listens on with the default configuration (proxy 80,
   notebook server 8080, API 8081). *)
C25_PortsAvoidSystemPorts ==
    mode = "ports" =>
        \A h \in DOMAIN mgr : mgr[h].port \notin SystemPorts

----------------------------------------------------------------------------
(* Proxy claims, continued *)

(* C26: in an established WebSocket relay, as soon as one side closes or a read fails,
   the other side is sent a normal-closure frame and the handler goes on to close both
   connections by itself, whatever the remaining peer does. Stated for the backend
   side: once the reader of the backend has ended, the client was sent the close frame
   and the handler's return (which closes both connections) is its next step. *)
C26_RelayTeardown ==
    (mode = "proxy" /\ Running /\ ws.pc = "relay" /\ ws.reader = "done") =>
        /\ ws.sent # <<>>
        /\ ws.sent[Len(ws.sent)] = CloseFrame(CloseNormalClosure)
        /\ ENABLED wsReturn

----------------------------------------------------------------------------
(* Registry claims, continued *)

(* the record nb with the fields present in req replaced by the values of req *)
Patched(nb, req) ==
    [ID |-> nb.ID,
     Name |-> IF req.Name # "" THEN req.Name ELSE nb.Name,
     Path |-> IF req.Path # "" THEN req.Path ELSE nb.Path,
     Domain |-> IF req.Domain # "" THEN req.Domain ELSE nb.Domain,
     ShowCode |-> IF req.ShowCode # "nil" THEN req.ShowCode = "true" ELSE nb.ShowCode,
     Watch |-> IF req.Watch # "nil" THEN req.Watch = "true" ELSE nb.Watch,
     CreatedAt |-> nb.CreatedAt]

(* C27: a successful Update changes only the fields present in the partial request:
   every absent field (empty string, or nil for the two optional booleans) keeps its
   stored value, id and createdAt are never changed, and no other record is touched. *)
C27_UpdateFrame ==
    (Returned("Update") /\ call[1].out \in {"ok", "nochange"}) =>
        LET f == call[1] IN
        /\ DOMAIN store = DOMAIN f.pre
        /\ store[f.id] = Patched(f.pre[f.id], f.req)
        /\ f.ret = store[f.id]
        /\ \A i \in DOMAIN store \ {f.id} : store[i] = f.pre[i]

C27_Witness ==
    /\ Returned("Update") /\ call[1].out = "ok"
    /\ call[1].req.Name = "" /\ call[1].req.Domain = "" /\ call[1].req.Watch = "nil"
    /\ call[1].req.Path # "" /\ call[1].req.ShowCode # "nil"
    /\ store[call[1].id].Path # call[1].pre[call[1].id].Path
    /\ store[call[1].id].ShowCode # call[1].pre[call[1].id].ShowCode
    /\ Cardinality(DOMAIN store) = 2

----------------------------------------------------------------------------
(* Proxy claims, continued *)

(* C28: the request the HTTP proxy sends to the backend carries the same query string
   as the inbound request, together with the same method, path and body, also when
   the query string is not empty. *)
C28_QueryForwarded ==
    (mode = "proxy" /\ http.fwd # NoForward) =>
        /\ http.fwd.method = http.method
        /\ http.fwd.path = http.path
        /\ http.fwd.body = http.body
        /\ http.fwd.query = http.query

----------------------------------------------------------------------------
(* Registry claims, continued *)

(* C29: after any sequence of Add, Update and Delete calls with arbitrary request
   fields, every persisted record has a non-empty id (the key it is stored under), a
   non-empty name, a non-empty path and a non-empty domain. *)
C29_RecordsComplete ==
    mode = "seq" =>
        \A i \in DOMAIN store :
            /\ store[i].ID = i /\ i # ZeroNotebook.ID
            /\ store[i].Name # ""
            /\ store[i].Path # ""
            /\ store[i].Domain # ""

C29_Witness ==
    /\ Returned("Update") /\ call[1].out = "ok"
    /\ call[1].req.Name = "" /\ call[1].req.Path = "" /\ call[1].req.Domain = ""
    /\ Cardinality(DOMAIN store) = 2
    /\ Cardinality(used) = 2

----------------------------------------------------------------------------
(* Whole-program claims, continued *)

(* C30: events of different ids are processed in parallel: while the handler of an
   Updated event of id A is stopping or restarting the process of A, the handler of a
   published event of another id B can take its next step, and the lock GetStatus and
   GetPort take to look up B is free. *)
C30_IdsInParallel ==
    (mode = "hub" /\ Running) =>
        \A e \in 1..Len(ev) :
            ev[e].pc \in {"stop", "restart"} =>
                /\ \A e2 \in 1..Len(ev) :
                       (ev[e2].pc = "pending" /\ ev[e2].nb.ID # ev[e].nb.ID)
                           => ENABLED HandlePending(e2)
                /\ (\E B \in DOMAIN managers : B # ev[e].nb.ID) => rmu = 0

----------------------------------------------------------------------------
(* Supervisor claims, continued *)

(* C31: each monitor acts only on the process it was spawned for: when it begins to
   wait it finds the reference to that process (not a cleared or a replaced one) and
   waits on it, and the status and the reference of the handle of a running process
   are not changed by the monitor of an earlier process: while a launched process runs
   and has not been stopped, its handle reports Running and references it. *)
C31_MonitorOwnProcess ==
    mode = "run" =>
        \A p \in 1..Len(proc) :
            /\ mon[p].pc # "panic"
            /\ mon[p].pc \in {"waiting", "woken"} => mon[p].target = p
            /\ proc[p].st = "running" =>
                   /\ mgr[proc[p].h].cmd = p
                   /\ mgr[proc[p].h].status = StatusRunning

----------------------------------------------------------------------------
(* Whole-program claims, continued *)

(* C32: after any sequence of successful Update calls on an id, once every published
   event has been processed by the supervisor, the record snapshot held in the handle
   of the id equals the record persisted for the id, and so do the path and the flags
   its running process was launched with. *)
C32_SnapshotIsPersisted ==
    Quiescent =>
        \A id \in DOMAIN store \cap DOMAIN managers :
            LET m == mgr[managers[id]] IN
            /\ m.notebook = store[id]
            /\ Alive(m.cmd) =>
                   proc[m.cmd].args = [CmdArgs(m) EXCEPT !.path = store[id].Path,
                                                         !.watch = store[id].Watch,
                                                         !.includeCode = store[id].ShowCode]

----------------------------------------------------------------------------
(* Registry claims under concurrent callers *)

(* C33: once a Delete of an id has returned success, Get of the id misses: an Update of
   the id that runs concurrently and read the record before the deletion does not
   write the record back. Stated while the successful Delete is the last call of its
   caller: the id has no persisted record. *)
C33_DeletedStaysDeleted ==
    mode = "conc" =>
        \A t \in DOMAIN call :
            (call[t].op = "Delete" /\ call[t].pc = "ret" /\ call[t].out = "ok")
                => ~Get(store, call[t].id).ok

(* the request changes the name and nothing else / the watch flag and nothing else *)
OnlyName(req) == req = [ZeroRequest EXCEPT !.Name = req.Name] /\ req.Name # ""
OnlyWatch(req) == req = [ZeroRequest EXCEPT !.Watch = req.Watch] /\ req.Watch # "nil"

(* C34: two successful Update calls on one id that execute concurrently and change
   different fields (one the name, the other the watch flag) both take effect: after
   both have returned the persisted record carries both new values. Stated for the
   runs in which the only other call ever issued is the Add that created the record. *)
C34_BothUpdatesApply ==
    mode = "conc" =>
        \A t1 \in DOMAIN call : \A t2 \in DOMAIN call \ {t1} :
            ( /\ call[t1].op = "Update" /\ call[t1].pc = "ret" /\ call[t1].out = "ok"
              /\ call[t2].op = "Update" /\ call[t2].pc = "ret" /\ call[t2].out = "ok"
              /\ call[t1].id = call[t2].id
              /\ call[t1].n + call[t2].n = 3
              /\ OnlyName(call[t1].req) /\ OnlyWatch(call[t2].req) )
            => /\ Get(store, call[t1].id).ok
               /\ store[call[t1].id].Name = call[t1].req.Name
               /\ store[call[t1].id].Watch = (call[t2].req.Watch = "true")

----------------------------------------------------------------------------
(* The Runner of src/unnamed/part_001 *)

(* C35: in the Runner of part_001, handling an Added or Updated event of an id whose
   handle owns a live process terminates: the handler that holds the map lock r.mu
   always has a next step, so that update returns, both locks are released and later
   events, GetStatus and GetPort are not blocked forever. *)
C35_UpdateTerminates ==
    (mode = "old" /\ Running) =>
        \A e \in 1..Len(ev) : rmu = e => ENABLED oldUpdate(e)
====
